---- MODULE Spec2Model ----
(***************************************************************************)
(* Model of igc_parser.py: find_closest_peak_to_location,                  *)
(* parse_flight_details and parse_flights.                                 *)
(*                                                                         *)
(* External collaborators are environment inputs: the parsed track         *)
(* (igc_lib.Flight), the Nominatim reverse geocoder, the Overpass          *)
(* point-of-interest service, the host timezone and the directory tree.    *)
(* Coordinates are integer metres along one meridian (every point has the  *)
(* same longitude), so geopy's distance is the absolute difference of the  *)
(* latitudes in metres.  A Python exception is a value                     *)
(* [kind |-> "raise", exc |-> <type>] that propagates until a handler.     *)
(***************************************************************************)
EXTENDS Integers, Sequences, FiniteSets, TLC

VARIABLES
    pc,             \* control position of the function being run
    tz,             \* timezone of the host (environment of datetime.fromtimestamp)
    igc_folder,     \* parse_flights argument
    output_folder,  \* parse_flights argument
    tree,           \* track files below igc_folder, in rglob order (environment)
    igc_files_list, \* parse_flights local
    flight_dicts,   \* parse_flights local
    i,              \* number of loop iterations entered by parse_flights
    output_file,    \* contents of output_folder/output_filename, or Absent
    stdout,         \* lines printed so far
    exc,            \* exception that left parse_flights, or "none"
    persisted,      \* the tables written by to_csv, oldest first
    lookups,        \* network calls made (reverse geocoding and Overpass queries)
    igc_path,       \* argument of a single parse_flight_details call
    flight_dict,    \* outcome of a single parse_flight_details call
    location,       \* argument of a single find_closest_peak_to_location call
    overpass,       \* the Overpass service as seen by that call (environment)
    peak_name       \* outcome of a single find_closest_peak_to_location call

vars == <<pc, tz, igc_folder, output_folder, tree, igc_files_list, flight_dicts, i,
          output_file, stdout, exc, persisted, lookups, igc_path, flight_dict,
          location, overpass, peak_name>>

\* Bounds of the model.
MaxFiles == 3
MaxNodes == 3

\* Python's None, where a record is expected
None == [none |-> TRUE]
\* The outcome of a call that has not been made
NotCalled == [kind |-> "not_called"]
\* A file that does not exist
Absent == [exists |-> FALSE, rows |-> <<>>]

abs(x) == IF x < 0 THEN -x ELSE x

\* All sequences over S of length at most n.
SeqUpTo(S, n) == UNION {[1..k -> S] : k \in 0..n}

\* Sequences of distinct elements.
IsInjective(s) == \A a, b \in DOMAIN s : s[a] = s[b] => a = b

(***************************************************************************)
(* Python helpers                                                          *)
(***************************************************************************)

\* dict.get(key, default)
DictGet(d, key, default) == IF key \in DOMAIN d THEN d[key] ELSE default

\* round(n / 60) for an integer number of seconds n: Python 3 rounds a float to
\* the nearest integer, and a tie (n / 60 = q + 0.5, exact in binary) to the even one.
PyRoundMinutes(n) ==
    LET q == n \div 60
        r == n % 60
    IN  IF 2 * r < 60 THEN q
        ELSE IF 2 * r > 60 THEN q + 1
        ELSE IF q % 2 = 0 THEN q ELSE q + 1

\* A timezone is [std, dst, dst_start, dst_end]: UTC offsets in seconds and the
\* UTC instants between which the dst offset applies.
UtcOffset(zone, timestamp) ==
    IF zone.dst_start <= timestamp /\ timestamp < zone.dst_end THEN zone.dst ELSE zone.std

\* datetime.fromtimestamp(timestamp): the naive local wall-clock time, kept as
\* seconds since 1970-01-01T00:00 on the local calendar.
FromTimestamp(zone, timestamp) == timestamp + UtcOffset(zone, timestamp)

\* (dt_a - dt_b).total_seconds() for two naive datetimes.
TotalSeconds(dt_a, dt_b) == dt_a - dt_b

\* Proleptic Gregorian calendar date of a naive datetime: .year, .month, .day
CivilFromDays(z) ==
    LET zz == z + 719468
        era == zz \div 146097
        doe == zz - era * 146097
        yoe == (doe - doe \div 1460 + doe \div 36524 - doe \div 146096) \div 365
        doy == doe - (365 * yoe + yoe \div 4 - yoe \div 100)
        mp == (5 * doy + 2) \div 153
        d == doy - (153 * mp + 2) \div 5 + 1
        m == IF mp < 10 THEN mp + 3 ELSE mp - 9
        y == yoe + era * 400 + (IF m <= 2 THEN 1 ELSE 0)
    IN  [year |-> y, month |-> m, day |-> d]

DateOf(dt) == CivilFromDays(dt \div 86400)

\* strftime('%H:%M') of a naive datetime, as <<hour, minute>>
StrfHM(dt) == <<(dt % 86400) \div 3600, (dt % 3600) \div 60>>

(***************************************************************************)
(* Strings that the code takes apart are sequences of characters.          *)
(***************************************************************************)
Digits == {"0", "1", "2", "3", "4", "5", "6", "7", "8", "9"}

RECURSIVE Translate(_)
\* str.translate({ord('m'): None, ord(','): '.'})
Translate(s) ==
    IF s = <<>> THEN <<>>
    ELSE LET c == Head(s)
             rest == Translate(Tail(s))
         IN  IF c = "m" THEN rest
             ELSE IF c = "," THEN <<".">> \o rest
             ELSE <<c>> \o rest

Meter == <<" ", "M", "e", "t", "e", "r">>

StartsWith(s, p) == Len(s) >= Len(p) /\ SubSeq(s, 1, Len(p)) = p

RECURSIVE ReplaceMeter(_)
\* str.replace(' Meter', ''): left to right, non-overlapping
ReplaceMeter(s) ==
    IF s = <<>> THEN <<>>
    ELSE IF StartsWith(s, Meter) THEN ReplaceMeter(SubSeq(s, Len(Meter) + 1, Len(s)))
    ELSE <<Head(s)>> \o ReplaceMeter(Tail(s))

RECURSIVE LStrip(_)
LStrip(s) == IF s # <<>> /\ Head(s) = " " THEN LStrip(Tail(s)) ELSE s

RECURSIVE RStrip(_)
RStrip(s) == IF s # <<>> /\ s[Len(s)] = " " THEN RStrip(SubSeq(s, 1, Len(s) - 1)) ELSE s

\* float(s) accepts s: surrounding blanks are ignored, then digits with at most
\* one decimal point and at least one digit (the tags modelled carry no sign,
\* exponent, underscore, "inf" or "nan").
FloatParses(s) ==
    LET t == RStrip(LStrip(s))
        dots == {k \in DOMAIN t : t[k] = "."}
        digs == {k \in DOMAIN t : t[k] \in Digits}
    IN  /\ digs # {}
        /\ Cardinality(dots) <= 1
        /\ \A k \in DOMAIN t : t[k] \in Digits \cup {"."}

(***************************************************************************)
(* find_closest_peak_to_location                                           *)
(***************************************************************************)
search_radius_meters == 2000

UnknownLocation == "Unknown Location"

Return(v) == [kind |-> "return", value |-> v]
Raise(e) == [kind |-> "raise", exc |-> e]

\* geopy distance((lat, lon), (lat, lon)) in metres, all points on one meridian
Distance(lat_a, lat_b) == abs(lat_a - lat_b)

\* The nodes that the query node[natural=peak](around:radius, lat, lon) returns, in
\* the order of the service's response.  A node the service sends without a
\* coordinate is not filtered by distance.
Around(world, radius, lat) ==
    LET Near(node) == "lat" \notin DOMAIN node \/ Distance(node.lat, lat) <= radius
    IN  SelectSeq(world, Near)

\* api.query(...): the service fails, or answers with response.nodes
ApiQuery(service, radius, raw) ==
    IF service.raises THEN Raise("OverpassError")
    ELSE Return(Around(service.world, radius, raw.lat))

RECURSIVE CollectPeaks(_, _)
\* The loop over response.nodes that fills peak_list; the first node whose
\* elevation or coordinate does not convert ends it with the exception.
CollectPeaks(nodes, raw) ==
    IF nodes = <<>> THEN Return(<<>>)
    ELSE LET node == Head(nodes)
         IN  IF "ele" \in DOMAIN node.tags /\ "name" \in DOMAIN node.tags
             THEN IF ~FloatParses(ReplaceMeter(Translate(node.tags["ele"])))
                  THEN Raise("ValueError")
                  ELSE IF "lat" \notin DOMAIN node
                  THEN Raise("TypeError")
                  ELSE LET rest == CollectPeaks(Tail(nodes), raw)
                           peak == [latitude |-> node.lat,
                                    longitude |-> node.lon,
                                    distance |-> Distance(node.lat, raw.lat),
                                    name |-> node.tags["name"]]
                       IN  IF rest.kind = "raise" THEN rest
                           ELSE Return(<<peak>> \o rest.value)
             ELSE CollectPeaks(Tail(nodes), raw)

\* key=lambda k: int(k['distance']) with the distance in kilometres
PeakSortKey(peak) == peak.distance \div 1000

RECURSIVE InsertPeak(_, _)
\* Put peak behind every element of the sorted list whose key is not larger.
InsertPeak(peak, sorted) ==
    IF sorted = <<>> THEN <<peak>>
    ELSE IF PeakSortKey(Head(sorted)) <= PeakSortKey(peak)
         THEN <<Head(sorted)>> \o InsertPeak(peak, Tail(sorted))
         ELSE <<peak>> \o sorted

RECURSIVE SortedPeaks(_)
\* sorted(peak_list, key=...): ascending by key, stable
SortedPeaks(peak_list) ==
    IF peak_list = <<>> THEN <<>>
    ELSE InsertPeak(peak_list[Len(peak_list)],
                    SortedPeaks(SubSeq(peak_list, 1, Len(peak_list) - 1)))

\* The body of the try statement.
PeakTryBody(loc, service) ==
    IF loc = None THEN Raise("AttributeError")
    ELSE LET response == ApiQuery(service, search_radius_meters, loc.raw)
         IN  IF response.kind = "raise" THEN response
             ELSE LET peak_list == CollectPeaks(response.value, loc.raw)
                  IN  IF peak_list.kind = "raise" THEN peak_list
                      ELSE LET peaks_sorted == SortedPeaks(peak_list.value)
                           IN  IF peaks_sorted # <<>>
                               THEN Return(peaks_sorted[1].name)
                               ELSE Return(UnknownLocation)

\* Mutant: the try statement without its except clause.
find_closest_peak_without_except(loc, service) == PeakTryBody(loc, service)

find_closest_peak_to_location(loc, service) ==
    LET body == PeakTryBody(loc, service)
    IN  IF body.kind = "raise" THEN Return(UnknownLocation) ELSE body

\* Whether the call sends a query to the Overpass service.
PeakQueries(loc) == IF loc = None THEN 0 ELSE 1

(***************************************************************************)
(* parse_flight_details                                                    *)
(*                                                                         *)
(* A track file f is [name, flight, nominatim, overpass]: its name, what   *)
(* igc_lib.Flight.create_from_file makes of it, and what the two services  *)
(* answer while it is processed (nominatim maps a queried latitude to the  *)
(* outcome of geolocator.reverse).  The glider, altitude and thermal       *)
(* columns are copied from the track without reading anything else and are *)
(* left out of the record.                                                 *)
(***************************************************************************)
Line(text, args) == [text |-> text, args |-> args]

\* geolocator.reverse(f"{fix.lat},{fix.lon}")
Reverse(nominatim, fix) == nominatim[fix.lat]

\* f"{fix.lat},{fix.lon}"
LatLonStr(fix) == <<fix.lat, fix.lon>>

\* Mutant: village takes precedence over city.
LandingLocationStrVillageFirst(address) ==
    LET landing_city == DictGet(address, "city", "")
        landing_village == DictGet(address, "village", "")
    IN  IF landing_village # "" THEN landing_village ELSE landing_city

LandingLocationStr(address) ==
    LET landing_city == DictGet(address, "city", "")
        landing_village == DictGet(address, "village", "")
    IN  IF landing_city # "" THEN landing_city ELSE landing_village

\* A geopy Location: only .raw is read
Location(lat, address) == [raw |-> [lat |-> lat, lon |-> 0, address |-> address]]

LocationWithoutAddress(lat) == [raw |-> [lat |-> lat, lon |-> 0]]

\* Mutant: the search is made around the takeoff fix itself.
TakeoffLocationAroundFix(f, location_takeoff) ==
    find_closest_peak_to_location(LocationWithoutAddress(f.flight.takeoff_fix.lat),
                                  f.overpass).value

\* 'Takeoff Location': find_closest_peak_to_location(location_takeoff)
TakeoffLocation(f, location_takeoff) ==
    find_closest_peak_to_location(location_takeoff, f.overpass).value

\* 'Airtime (min)': round((dt_landing - dt_takeoff).total_seconds() / 60)
Airtime(dt_landing, dt_takeoff) == PyRoundMinutes(TotalSeconds(dt_landing, dt_takeoff))

\* What a call leaves behind: its result or exception, the lines it printed and
\* the number of network calls it made.
Outcome(result, printed, calls) ==
    [kind |-> result.kind,
     value |-> IF result.kind = "return" THEN result.value ELSE None,
     exc |-> IF result.kind = "raise" THEN result.exc ELSE "none",
     printed |-> printed,
     lookups |-> calls]

parse_flight_details(f, zone) ==
    LET flight == f.flight
    IN  IF ~flight.valid
        THEN Outcome(Return(None), <<Line("Flight is invalid", <<f.name, flight.notes>>)>>, 0)
        ELSE
        LET location_takeoff == Reverse(f.nominatim, flight.takeoff_fix)
        IN  IF location_takeoff.kind = "raise" THEN Outcome(location_takeoff, <<>>, 1)
            ELSE
            LET dt_takeoff == FromTimestamp(zone, flight.takeoff_fix.timestamp)
                location_landing == Reverse(f.nominatim, flight.landing_fix)
            IN  IF location_landing.kind = "raise" THEN Outcome(location_landing, <<>>, 2)
                ELSE IF location_landing.value = None
                THEN Outcome(Raise("AttributeError"), <<>>, 2)
                ELSE IF "address" \notin DOMAIN location_landing.value.raw
                THEN Outcome(Raise("KeyError"), <<>>, 2)
                ELSE
                LET dt_landing == FromTimestamp(zone, flight.landing_fix.timestamp)
                    location_landing_str ==
                        LandingLocationStr(location_landing.value.raw.address)
                IN  Outcome(Return(
                        [Day |-> DateOf(dt_landing).day,
                         Month |-> DateOf(dt_landing).month,
                         Year |-> DateOf(dt_landing).year,
                         TakeoffTime |-> StrfHM(dt_takeoff),
                         TakeoffLocation |-> TakeoffLocation(f, location_takeoff.value),
                         TakeoffLatLon |-> LatLonStr(flight.takeoff_fix),
                         LandingTime |-> StrfHM(dt_landing),
                         LandingLocation |-> location_landing_str,
                         LandingLatLon |-> LatLonStr(flight.landing_fix),
                         Airtime |-> Airtime(dt_landing, dt_takeoff),
                         IGCFile |-> f.name]),
                        <<>>, 2 + PeakQueries(location_takeoff.value))

(***************************************************************************)
(* Inputs of the single-call specification of find_closest_peak_to_location *)
(***************************************************************************)
Node(tags, lat) == [tags |-> tags, lat |-> lat, lon |-> 0]

\* A node whose coordinate does not convert (float(None))
NodeWithoutCoordinate(tags) == [tags |-> tags]

Nodes ==
    { Node([name |-> "Alpha", ele |-> <<"9", "8", "0">>], 900),
      Node([name |-> "Beta", ele |-> <<"1", "2", "0", "0", " ", "m">>], 200),
      Node([name |-> "Gamma", ele |-> <<"1", "4", "5", "0", ",", "5">>], 1500),
      Node([name |-> "Delta",
            ele |-> <<"2", "0", "1", "0", " ", "M", "e", "t", "e", "r">>], 2600),
      Node([ele |-> <<"7", "0", "0">>], 100),
      Node([name |-> "Epsilon"], 50),
      Node([name |-> "Zeta", ele |-> <<"h", "i", "g", "h">>], 300),
      NodeWithoutCoordinate([name |-> "Eta", ele |-> <<"1", "0", "0", "0">>]) }

Worlds == {w \in SeqUpTo(Nodes, MaxNodes) : IsInjective(w)}

PeakLocations == {None, LocationWithoutAddress(0), LocationWithoutAddress(1000)}

NoTimezone == [std |-> 0, dst |-> 0, dst_start |-> 0, dst_end |-> 0]

IdleFlights ==
    /\ tz = NoTimezone
    /\ igc_folder = "" /\ output_folder = "" /\ tree = <<>> /\ igc_files_list = <<>>
    /\ flight_dicts = <<>> /\ i = 0 /\ output_file = Absent /\ stdout = <<>>
    /\ exc = "none" /\ persisted = <<>> /\ lookups = 0

IdleDetails == igc_path = None /\ flight_dict = NotCalled

IdlePeak ==
    location = None /\ overpass = [world |-> <<>>, raises |-> FALSE] /\ peak_name = NotCalled

InitPeak ==
    /\ pc = "peak_call"
    /\ location \in PeakLocations
    /\ overpass \in [world : Worlds, raises : BOOLEAN]
    /\ peak_name = NotCalled
    /\ IdleFlights
    /\ IdleDetails

CallFindClosestPeak ==
    /\ pc = "peak_call"
    /\ peak_name' = find_closest_peak_to_location(location, overpass)
    /\ pc' = "peak_return"
    /\ UNCHANGED <<tz, igc_folder, output_folder, tree, igc_files_list, flight_dicts, i,
                   output_file, stdout, exc, persisted, lookups, igc_path, flight_dict,
                   location, overpass>>

NextPeak == CallFindClosestPeak

SpecPeak == InitPeak /\ [][NextPeak]_vars

(***************************************************************************)
(* parse_flights                                                           *)
(***************************************************************************)
Columns ==
    {"Day", "Month", "Year", "TakeoffTime", "TakeoffLocation", "TakeoffLatLon",
     "LandingTime", "LandingLocation", "LandingLatLon", "Airtime", "IGCFile"}

\* pd.DataFrame.from_dict(list of dicts): the columns are the keys of the dicts,
\* so the frame of an empty list has no columns.
DataFrameFromDict(dicts) ==
    [columns |-> IF dicts = <<>> THEN {} ELSE Columns, rows |-> dicts]

SortColumns == <<"Year", "Month", "Day">>

RECURSIVE LexLessEq(_, _, _)
\* Row a is not behind row b in the order given by the columns by, compared in turn.
LexLessEq(a, b, by) ==
    IF by = <<>> THEN TRUE
    ELSE IF a[Head(by)] < b[Head(by)] THEN TRUE
    ELSE IF a[Head(by)] > b[Head(by)] THEN FALSE
    ELSE LexLessEq(a, b, Tail(by))

RECURSIVE InsertRow(_, _, _)
\* Put row behind every row of the sorted list that is not behind it.
InsertRow(row, sorted, by) ==
    IF sorted = <<>> THEN <<row>>
    ELSE IF LexLessEq(Head(sorted), row, by)
         THEN <<Head(sorted)>> \o InsertRow(row, Tail(sorted), by)
         ELSE <<row>> \o sorted

RECURSIVE SortedRows(_, _)
SortedRows(rows, by) ==
    IF rows = <<>> THEN <<>>
    ELSE InsertRow(rows[Len(rows)], SortedRows(SubSeq(rows, 1, Len(rows) - 1), by), by)

\* Mutant: the frame is written in the order of accumulation.
sort_values_unsorted(df, by) ==
    IF \E k \in DOMAIN by : by[k] \notin df.columns THEN Raise("KeyError")
    ELSE Return(df)

\* df.sort_values(by): KeyError for a column the frame lacks, else the rows
\* ascending by the columns, rows with equal keys in their previous order.
sort_values(df, by) ==
    IF \E k \in DOMAIN by : by[k] \notin df.columns THEN Raise("KeyError")
    ELSE Return([df EXCEPT !.rows = SortedRows(df.rows, by)])

\* df.to_csv(output_file, sep=';', index=False): the file now holds the frame
to_csv(df) == [exists |-> TRUE, rows |-> df.rows]

\* Mutant: the output folder is not checked.
ValidateWithoutOutputCheck ==
    /\ pc = "start"
    /\ IF igc_folder = ""
       THEN /\ stdout' = Append(stdout, Line("Please select IGC file location.", <<>>))
            /\ pc' = "halted"
            /\ UNCHANGED igc_files_list
       ELSE /\ igc_files_list' = tree
            /\ IF tree = <<>>
               THEN /\ stdout' = stdout \o <<Line("Starting.", <<>>),
                                             Line("No IGC files found", <<igc_folder>>)>>
                    /\ pc' = "halted"
               ELSE /\ stdout' = Append(stdout, Line("Starting.", <<>>))
                    /\ pc' = "loop"
    /\ UNCHANGED <<tz, igc_folder, output_folder, tree, flight_dicts, i, output_file, exc,
                   persisted, lookups, igc_path, flight_dict, location, overpass,
                   peak_name>>

\* The checks of the arguments and the enumeration of the track files.
Validate ==
    /\ pc = "start"
    /\ IF igc_folder = ""
       THEN /\ stdout' = Append(stdout, Line("Please select IGC file location.", <<>>))
            /\ pc' = "halted"
            /\ UNCHANGED igc_files_list
       ELSE IF output_folder = ""
       THEN /\ stdout' = Append(stdout, Line("Please select output folder", <<>>))
            /\ pc' = "halted"
            /\ UNCHANGED igc_files_list
       ELSE /\ igc_files_list' = tree
            /\ IF tree = <<>>
               THEN /\ stdout' = stdout \o <<Line("Starting.", <<>>),
                                             Line("No IGC files found", <<igc_folder>>)>>
                    /\ pc' = "halted"
               ELSE /\ stdout' = Append(stdout, Line("Starting.", <<>>))
                    /\ pc' = "loop"
    /\ UNCHANGED <<tz, igc_folder, output_folder, tree, flight_dicts, i, output_file, exc,
                   persisted, lookups, igc_path, flight_dict, location, overpass,
                   peak_name>>

\* One iteration of the loop over igc_files_list, up to the exception that
\* leaves it or to the end of to_csv.
ProcessFile ==
    /\ pc = "loop"
    /\ i < Len(igc_files_list)
    /\ LET f == igc_files_list[i + 1]
           details == parse_flight_details(f, tz)
           dicts == IF details.kind = "return" /\ details.value # None
                    THEN Append(flight_dicts, details.value)
                    ELSE flight_dicts
           df == sort_values(DataFrameFromDict(dicts), SortColumns)
       IN  /\ i' = i + 1
           /\ stdout' = stdout
                  \o <<Line("Processing flight", <<i + 1, Len(igc_files_list), f.name>>)>>
                  \o details.printed
           /\ lookups' = lookups + details.lookups
           /\ flight_dicts' = dicts
           /\ IF details.kind = "raise"
              THEN /\ pc' = "raised"
                   /\ exc' = details.exc
                   /\ UNCHANGED <<output_file, persisted>>
              ELSE IF df.kind = "raise"
              THEN /\ pc' = "raised"
                   /\ exc' = df.exc
                   /\ UNCHANGED <<output_file, persisted>>
              ELSE /\ output_file' = to_csv(df.value)
                   /\ persisted' = Append(persisted, to_csv(df.value))
                   /\ UNCHANGED <<pc, exc>>
    /\ UNCHANGED <<tz, igc_folder, output_folder, tree, igc_files_list, igc_path,
                   flight_dict, location, overpass, peak_name>>

\* The loop has run through every file.
Finish ==
    /\ pc = "loop"
    /\ i = Len(igc_files_list)
    /\ stdout' = Append(stdout, Line("Done.", <<>>))
    /\ pc' = "done"
    /\ UNCHANGED <<tz, igc_folder, output_folder, tree, igc_files_list, flight_dicts, i,
                   output_file, exc, persisted, lookups, igc_path, flight_dict,
                   location, overpass, peak_name>>

(***************************************************************************)
(* Inputs of the single-call specification of parse_flight_details         *)
(***************************************************************************)
UTC == [std |-> 0, dst |-> 0, dst_start |-> 0, dst_end |-> 0]

\* Central European time in 2023
Vienna == [std |-> 3600, dst |-> 7200, dst_start |-> 1679792400, dst_end |-> 1698541200]

\* US Eastern time in 2023
NewYork == [std |-> 0 - 18000, dst |-> 0 - 14400,
            dst_start |-> 1678604400, dst_end |-> 1699164000]

Timezones == {UTC, Vienna, NewYork}

Fix(lat, timestamp) == [lat |-> lat, lon |-> 0, timestamp |-> timestamp]

\* <<takeoff, landing>> timestamps (UTC seconds): 2023-01-02 10:00 + 90.5 min;
\* 2022-12-31 23:30 + 29 min 49 s; across the start and across the end of
\* European summer time, one hour each; a landing stamped before the takeoff.
FlightTimes ==
    { <<1672653600, 1672653600 + 5430>>,
      <<1672529400, 1672529400 + 1789>>,
      <<1679790600, 1679794200>>,
      <<1698539400, 1698543000>>,
      <<1673773200, 1673773200 - 600>> }

\* Latitudes of the takeoff and the landing fix
TakeoffLat == 1 - 1
LandingLat == 5 * 1000

Addresses ==
    { <<>>, [city |-> "Stadt"], [village |-> "Dorf"], [city |-> "Stadt", village |-> "Dorf"] }

GeocoderError == Raise("GeocoderServiceError")

TakeoffAnswers ==
    { GeocoderError, Return(None),
      Return(Location(TakeoffLat, [village |-> "Berg"])),
      Return(Location(TakeoffLat + 1000, [village |-> "Berg"])) }

LandingAnswers ==
    { GeocoderError, Return(None), Return(LocationWithoutAddress(LandingLat)) }
        \cup { Return(Location(LandingLat, a)) : a \in Addresses }

Alpha == Node([name |-> "Alpha", ele |-> <<"9", "8", "0">>], 900)
Beta == Node([name |-> "Beta", ele |-> <<"1", "2", "0", "0", " ", "m">>], 200)
Delta == Node([name |-> "Delta",
               ele |-> <<"2", "0", "1", "0", " ", "M", "e", "t", "e", "r">>], 2600)

DetailWorlds == { <<>>, <<Delta>>, <<Alpha, Beta>>, <<Delta, Beta>> }

TrackFile(name, valid, times, takeoff_answer, landing_answer, service) ==
    [name |-> name,
     flight |-> [valid |-> valid,
                 notes |-> IF valid THEN <<>> ELSE <<"Error: too few fixes">>,
                 takeoff_fix |-> Fix(TakeoffLat, times[1]),
                 landing_fix |-> Fix(LandingLat, times[2])],
     nominatim |-> (TakeoffLat :> takeoff_answer) @@ (LandingLat :> landing_answer),
     overpass |-> service]

DetailFiles ==
    { TrackFile(1, valid, times, ta, la, [world |-> w, raises |-> r]) :
        valid \in BOOLEAN, times \in FlightTimes, ta \in TakeoffAnswers,
        la \in LandingAnswers, w \in DetailWorlds, r \in BOOLEAN }

InitDetails ==
    /\ pc = "details_call"
    /\ tz \in Timezones
    /\ igc_path \in DetailFiles
    /\ flight_dict = NotCalled
    /\ igc_folder = "" /\ output_folder = "" /\ tree = <<>> /\ igc_files_list = <<>>
    /\ flight_dicts = <<>> /\ i = 0 /\ output_file = Absent /\ stdout = <<>>
    /\ exc = "none" /\ persisted = <<>> /\ lookups = 0
    /\ IdlePeak

CallParseFlightDetails ==
    /\ pc = "details_call"
    /\ flight_dict' = parse_flight_details(igc_path, tz)
    /\ pc' = "details_return"
    /\ UNCHANGED <<tz, igc_folder, output_folder, tree, igc_files_list, flight_dicts, i,
                   output_file, stdout, exc, persisted, lookups, igc_path,
                   location, overpass, peak_name>>

NextDetails == CallParseFlightDetails

SpecDetails == InitDetails /\ [][NextDetails]_vars

(***************************************************************************)
(* Inputs of parse_flights                                                 *)
(***************************************************************************)
\* Landing times on 2022-12-31 (23:30 UTC), 2023-01-15 and 2023-02-01, one hour
\* after the takeoff.
LandingTimes == {1672529400, 1673773200, 1675249200}

GoodTakeoff == Return(Location(TakeoffLat, [village |-> "Berg"]))
GoodLanding == Return(Location(LandingLat, [city |-> "Stadt"]))
Peaks == [world |-> <<Alpha, Beta>>, raises |-> FALSE]

\* What a track file of the tree can be: an invalid track, a track whose reverse
\* geocoding fails or finds nothing, and valid tracks of three dates.
TrackFiles(name) ==
    { TrackFile(name, FALSE, <<1672653600, 1672653600 + 60>>,
                GoodTakeoff, GoodLanding, Peaks),
      TrackFile(name, TRUE, <<1672653600, 1672653600 + 60>>,
                GeocoderError, GoodLanding, Peaks),
      TrackFile(name, TRUE, <<1672653600, 1672653600 + 60>>,
                GoodTakeoff, Return(None), Peaks) }
        \cup { TrackFile(name, TRUE, <<t - 3600, t>>, GoodTakeoff, GoodLanding, Peaks) :
                 t \in LandingTimes }

\* The trees: up to MaxFiles track files, named by their position.
Trees ==
    { [k \in DOMAIN t |-> [t[k] EXCEPT !.name = k]] : t \in SeqUpTo(TrackFiles(0), MaxFiles) }

\* The output file left by an earlier run
EarlierOutput ==
    [exists |-> TRUE,
     rows |-> <<[Day |-> 1, Month |-> 5, Year |-> 2021, TakeoffTime |-> <<9, 0>>,
                 TakeoffLocation |-> "Alpha", TakeoffLatLon |-> <<0, 0>>,
                 LandingTime |-> <<10, 0>>, LandingLocation |-> "Stadt",
                 LandingLatLon |-> <<5000, 0>>, Airtime |-> 60, IGCFile |-> 0]>>]

Init ==
    /\ pc = "start"
    /\ tz \in {UTC, Vienna}
    /\ igc_folder \in {"", "flights"}
    /\ output_folder \in {"", "out"}
    /\ tree \in Trees
    /\ igc_folder = "" => tree = <<>>
    /\ igc_files_list = <<>>
    /\ flight_dicts = <<>>
    /\ i = 0
    /\ output_file \in {Absent, EarlierOutput}
    /\ stdout = <<>>
    /\ exc = "none"
    /\ persisted = <<>>
    /\ lookups = 0
    /\ IdleDetails
    /\ IdlePeak

Next == Validate \/ ProcessFile \/ Finish

Spec == Init /\ [][Next]_vars

(***************************************************************************)
(* Properties                                                              *)
(***************************************************************************)
Range(s) == {s[k] : k \in DOMAIN s}

Count(s, x) == Cardinality({k \in DOMAIN s : s[k] = x})

\* The two sequences hold the same rows, each as often.
SameRows(a, b) ==
    /\ Len(a) = Len(b)
    /\ \A x \in Range(a) \cup Range(b) : Count(a, x) = Count(b, x)

DateKey(row) == row.Year * 10000 + row.Month * 100 + row.Day

IsSortedByDate(rows) ==
    \A a, b \in DOMAIN rows : a < b => DateKey(rows[a]) <= DateKey(rows[b])

Extracts(f) == parse_flight_details(f, tz)

Invalid(f) == ~f.flight.valid

InvalidCount == Cardinality({j \in DOMAIN tree : Invalid(tree[j])})

Validated == pc \in {"loop", "done", "raised"}

\* C1: when extracting a file raises an unexpected error, the error is caught,
\* the file contributes no row and the run goes on to the remaining files and
\* to completion: the exception never leaves parse_flights.
C1_ExtractionErrorIsCaught ==
    \A j \in 1..i :
        Extracts(igc_files_list[j]).kind = "raise" =>
            /\ pc # "raised"
            /\ \A k \in DOMAIN flight_dicts : flight_dicts[k].IGCFile # j
            /\ \A k \in DOMAIN persisted :
                   \A r \in DOMAIN persisted[k].rows : persisted[k].rows[r].IGCFile # j

\* C2: over N files of which k are invalid (every other file extracts), in any
\* order: the table is persisted after each file, the table after file n has
\* at most n rows, row counts never decrease, and the table after completion
\* has N - k rows.
C2_PersistedAfterEachFile ==
    (Validated /\ \A j \in DOMAIN tree : Extracts(tree[j]).kind = "return") =>
        /\ pc # "raised"
        /\ Len(persisted) = i
        /\ \A n \in DOMAIN persisted : Len(persisted[n].rows) <= n
        /\ \A n \in DOMAIN persisted :
               n > 1 => Len(persisted[n - 1].rows) <= Len(persisted[n].rows)
        /\ pc = "done" =>
               /\ Len(persisted) = Len(tree)
               /\ output_file.exists
               /\ Len(output_file.rows) = Len(tree) - InvalidCount

\* C3: an invalid track is reported with the file's name and skipped; the run is
\* not aborted by it, and its name appears in no persisted table.
C3_InvalidTrackIsSkipped ==
    \A j \in 1..i :
        Invalid(igc_files_list[j]) =>
            /\ \E k \in DOMAIN stdout :
                   /\ stdout[k].text = "Flight is invalid"
                   /\ stdout[k].args[1] = j
            /\ ~(pc = "raised" /\ i = j)
            /\ \A k \in DOMAIN persisted :
                   \A r \in DOMAIN persisted[k].rows : persisted[k].rows[r].IGCFile # j

\* C4: every table written is sorted ascending by (Year, Month, Day) and holds
\* exactly the records accumulated when it was written.
C4_TablesSortedAndComplete ==
    /\ \A k \in DOMAIN persisted :
           /\ IsSortedByDate(persisted[k].rows)
           /\ \E n \in 0..Len(flight_dicts) :
                  SameRows(persisted[k].rows, SubSeq(flight_dicts, 1, n))
    /\ persisted # <<>> =>
           /\ output_file = persisted[Len(persisted)]
           /\ SameRows(output_file.rows, flight_dicts)

\* Records accumulated out of date order have been written in date order.
C4_Witness ==
    /\ pc = "done"
    /\ Len(flight_dicts) >= 2
    /\ ~IsSortedByDate(flight_dicts)
    /\ output_file = persisted[Len(persisted)]
    /\ IsSortedByDate(output_file.rows)

\* C5: with an empty input folder, an empty output folder or no track file found,
\* parse_flights prints a message and halts: no file is parsed, no lookup is
\* made and the output file is neither created nor modified.
C5_HaltsBeforeAnyWork ==
    (pc # "start" /\ (igc_folder = "" \/ output_folder = "" \/ tree = <<>>)) =>
        /\ pc = "halted"
        /\ stdout # <<>>
        /\ stdout[Len(stdout)].text \in
               {"Please select IGC file location.", "Please select output folder",
                "No IGC files found"}
        /\ i = 0
        /\ lookups = 0
        /\ persisted = <<>>
        /\ output_file \in {Absent, EarlierOutput}
        /\ flight_dicts = <<>>

\* Halted for want of an output folder, with track files waiting and an
\* earlier output left as it was.
C5_Witness ==
    /\ pc = "halted"
    /\ igc_folder # ""
    /\ output_folder = ""
    /\ tree # <<>>
    /\ output_file = EarlierOutput
    /\ stdout[Len(stdout)].text = "Please select output folder"

\* The nodes of the response that carry an elevation and a name tag.
Tagged(resp) == {k \in DOMAIN resp : {"ele", "name"} \subseteq DOMAIN resp[k].tags}

\* The tagged nodes whose elevation or coordinate does not convert.
Malformed(resp) ==
    {k \in Tagged(resp) :
        \/ "lat" \notin DOMAIN resp[k]
        \/ ~FloatParses(ReplaceMeter(Translate(resp[k].tags.ele)))}

\* The name of the first node of the response among the well-formed tagged ones
\* whose distance in whole kilometres is least; the fallback label without a
\* location, without an answer, without a tagged node or with a malformed one.
NearestByWholeKm(loc, service) ==
    IF loc = None \/ service.raises THEN UnknownLocation
    ELSE LET resp == Around(service.world, search_radius_meters, loc.raw.lat)
             km(k) == Distance(resp[k].lat, loc.raw.lat) \div 1000
         IN  IF Tagged(resp) = {} \/ Malformed(resp) # {} THEN UnknownLocation
             ELSE LET best == CHOOSE k \in Tagged(resp) :
                                  \A m \in Tagged(resp) :
                                      km(k) < km(m) \/ (km(k) = km(m) /\ k <= m)
                  IN  resp[best].tags.name

\* C6: find_closest_peak_to_location never raises; when the query raises, returns
\* no features, returns only features without an elevation or name tag, or a
\* candidate's elevation or coordinate does not convert, it returns
\* 'Unknown Location'.
C6_NeverRaises ==
    pc = "peak_return" =>
        /\ peak_name.kind = "return"
        /\ location = None => peak_name.value = UnknownLocation
        /\ location # None =>
               LET resp == Around(overpass.world, search_radius_meters, location.raw.lat)
               IN  (overpass.raises \/ Tagged(resp) = {} \/ Malformed(resp) # {}) =>
                       peak_name.value = UnknownLocation

\* A malformed candidate next to a well-formed one, answered with the fallback.
C6_Witness ==
    /\ pc = "peak_return"
    /\ location # None
    /\ ~overpass.raises
    /\ LET resp == Around(overpass.world, search_radius_meters, location.raw.lat)
       IN  Malformed(resp) # {} /\ Tagged(resp) \ Malformed(resp) # {}
    /\ peak_name = Return(UnknownLocation)

\* C7: for a non-empty list of qualifying candidates the result is the name of a
\* candidate at the least distance, in every response order.
C7_ReturnsNearestCandidate ==
    (pc = "peak_return" /\ location # None /\ ~overpass.raises) =>
        LET resp == Around(overpass.world, search_radius_meters, location.raw.lat)
            dist(k) == Distance(resp[k].lat, location.raw.lat)
        IN  (Tagged(resp) # {} /\ Malformed(resp) = {}) =>
                \E k \in Tagged(resp) :
                    /\ peak_name = Return(resp[k].tags.name)
                    /\ \A m \in Tagged(resp) : dist(k) <= dist(m)

LandingAddress == igc_path.nominatim[igc_path.flight.landing_fix.lat].value.raw.address

RecordMade ==
    pc = "details_return" /\ flight_dict.kind = "return" /\ flight_dict.value # None

\* C8: the landing place label is the city when the address has one, else the
\* village when it has one, else the empty string.
C8_LandingPlacePrecedence ==
    RecordMade =>
        flight_dict.value.LandingLocation =
            IF "city" \in DOMAIN LandingAddress THEN LandingAddress.city
            ELSE IF "village" \in DOMAIN LandingAddress THEN LandingAddress.village
            ELSE ""

\* An address with both a city and a village, labelled with the city.
C8_Witness ==
    /\ RecordMade
    /\ {"city", "village"} \subseteq DOMAIN LandingAddress
    /\ flight_dict.value.LandingLocation = LandingAddress.city

TakeoffAnswer == igc_path.nominatim[igc_path.flight.takeoff_fix.lat]

\* C9 as claimed: for a valid track (whose landing is geocoded) a record is made
\* whatever the reverse geocoding of the takeoff does, and its takeoff label is
\* the nearest-feature search around the takeoff fix's own coordinate.
C9_SearchAroundTakeoffFix ==
    (/\ pc = "details_return"
     /\ igc_path.flight.valid
     /\ igc_path.nominatim[igc_path.flight.landing_fix.lat] \in
            {Return(Location(LandingLat, a)) : a \in Addresses}) =>
        /\ RecordMade
        /\ flight_dict.value.TakeoffLatLon = LatLonStr(igc_path.flight.takeoff_fix)
        /\ flight_dict.value.TakeoffLocation =
               NearestByWholeKm(LocationWithoutAddress(igc_path.flight.takeoff_fix.lat),
                                igc_path.overpass)

\* C9 amended: the takeoff label of a record is the nearest-feature search around
\* the coordinate of the Location that reverse geocoding the takeoff fix
\* returned, the fallback label when it returned none; and no record is made
\* when that reverse geocoding raises.
C9_SearchAroundGeocodedLocation ==
    (pc = "details_return" /\ igc_path.flight.valid) =>
        /\ TakeoffAnswer.kind = "raise" => flight_dict.kind = "raise"
        /\ RecordMade =>
               /\ flight_dict.value.TakeoffLatLon = LatLonStr(igc_path.flight.takeoff_fix)
               /\ flight_dict.value.TakeoffLocation =
                      NearestByWholeKm(TakeoffAnswer.value, igc_path.overpass)

\* The geocoder put the takeoff 1000 m from the fix, and the label is a peak
\* within the radius of that place but not of the fix.
C9_Witness ==
    /\ RecordMade
    /\ TakeoffAnswer.value # None
    /\ TakeoffAnswer.value.raw.lat # igc_path.flight.takeoff_fix.lat
    /\ flight_dict.value.TakeoffLocation = "Delta"
    /\ NearestByWholeKm(LocationWithoutAddress(igc_path.flight.takeoff_fix.lat),
                        igc_path.overpass) = UnknownLocation

\* C10: the airtime of a record is the difference of the landing and takeoff
\* timestamps in minutes, rounded, whatever the conversion to local date-times.
C10_AirtimeFromTimestamps ==
    RecordMade =>
        flight_dict.value.Airtime =
            PyRoundMinutes(igc_path.flight.landing_fix.timestamp
                           - igc_path.flight.takeoff_fix.timestamp)
====
